---- MODULE Spec2Model ----
(***************************************************************************)
(* A model of the deepshare backend: the IPFS retriever script             *)
(* (src/retrieve_cid.py) and the upload service (src/main.py).             *)
(*                                                                         *)
(* Spec        the retriever's batch run: main() looping over the          *)
(*             identifiers, retrieve_from_ipfs() walking the gateway list, *)
(*             then classification, rendering and the files written.       *)
(* SpecUpload  the upload service handling /upload and /upload-json        *)
(*             requests one after the other.                               *)
(*                                                                         *)
(* Bytes are naturals 0..255, byte strings are sequences of bytes,         *)
(* identifiers are sequences of one-character strings.  The libraries the  *)
(* script calls on a payload are modelled per payload: bytes.decode is     *)
(* computed from the bytes, json.loads and PIL's Image.open are recorded   *)
(* with each payload of the payload universe below.                        *)
(***************************************************************************)
EXTENDS Integers, Sequences, FiniteSets, TLC

\* ------------------------------------------------------------- bounds

\* The largest number of identifiers given on the command line.
MaxCids == 2

\* The number of upload requests the service handles in one behaviour.
MaxRequests == 2

\* ------------------------------------------------------- byte strings

\* bytes.startswith(prefix)
startswith(b, prefix) ==
    /\ Len(b) >= Len(prefix)
    /\ SubSeq(b, 1, Len(prefix)) = prefix

\* A PNG test that asks for the whole eight-byte PNG signature.
PNG_SIG_WHOLE == <<137, 80, 78, 71, 13, 10, 26, 10>>

\* b'\xff\xd8\xff', b'\x89PNG', b'{', b'['
JPEG_SIG == <<255, 216, 255>>
PNG_SIG == <<137, 80, 78, 71>>
BRACE == <<123>>
BRACKET == <<91>>

IsCont(x) == x >= 128 /\ x <= 191

\* The number of bytes of the well-formed UTF-8 sequence that starts at
\* b[i], or 0 when there is none (what makes bytes.decode('utf-8') raise
\* UnicodeDecodeError).
Utf8SeqLen(b, i) ==
    LET n == Len(b)
        x == b[i]
        c(k) == i + k <= n /\ IsCont(b[i + k])
    IN  IF x <= 127 THEN 1
        ELSE IF x >= 194 /\ x <= 223 THEN (IF c(1) THEN 2 ELSE 0)
        ELSE IF x = 224
            THEN (IF c(1) /\ c(2) /\ b[i + 1] >= 160 THEN 3 ELSE 0)
        ELSE IF x = 237
            THEN (IF c(1) /\ c(2) /\ b[i + 1] <= 159 THEN 3 ELSE 0)
        ELSE IF x >= 225 /\ x <= 239 THEN (IF c(1) /\ c(2) THEN 3 ELSE 0)
        ELSE IF x = 240
            THEN (IF c(1) /\ c(2) /\ c(3) /\ b[i + 1] >= 144 THEN 4 ELSE 0)
        ELSE IF x = 244
            THEN (IF c(1) /\ c(2) /\ c(3) /\ b[i + 1] <= 143 THEN 4 ELSE 0)
        ELSE IF x >= 241 /\ x <= 243
            THEN (IF c(1) /\ c(2) /\ c(3) THEN 4 ELSE 0)
        ELSE 0

RECURSIVE Utf8From(_, _)
Utf8From(b, i) ==
    IF i > Len(b) THEN TRUE
    ELSE LET k == Utf8SeqLen(b, i)
         IN  k > 0 /\ Utf8From(b, i + k)

\* content.decode('utf-8') returns (TRUE) or raises UnicodeDecodeError.
Utf8Decodes(b) == Utf8From(b, 1)

\* ------------------------------------------------------- JSON values

\* What json.loads returns, by Python type.
JInt == [t |-> "int"]
JStr(s) == [t |-> "str", s |-> s]
JList(items) == [t |-> "list", items |-> items]
JDict(m) == [t |-> "dict", m |-> m]
\* json.loads raised JSONDecodeError.
JErr == [t |-> "error"]

\* `key in v`: defined for dict (a key) and list (an element); TypeError
\* for int.  (No payload of the universe makes a str the container.)
Iterable(v) == v.t \in {"dict", "list"}
In(key, v) ==
    CASE v.t = "dict" -> key \in DOMAIN v.m
      [] v.t = "list" -> \E k \in 1..Len(v.items) : v.items[k] = JStr(key)

\* len(v) is defined; v[:30] is defined.
HasLen(v) == v.t \in {"dict", "list", "str"}
Sliceable(v) == v.t \in {"list", "str"}

\* ---------------------------------------------------------- payloads

\* A payload: its bytes, what Image.open makes of it ("error": it raises,
\* otherwise img.format) and what json.loads makes of its text.
Payload(bytes, pil, json) == [bytes |-> bytes, pil |-> pil, json |-> json]

JpegGood == Payload(<<255, 216, 255, 224>>, "JPEG", JErr)
JpegBad == Payload(<<255, 216, 255, 0>>, "error", JErr)
\* exactly the three signature bytes
JpegMin == Payload(<<255, 216, 255>>, "error", JErr)
PngGood == Payload(<<137, 80, 78, 71, 13, 10, 26, 10>>, "PNG", JErr)
PngBad == Payload(<<137, 80, 78, 71, 0>>, "error", JErr)
\* GIF89a...: an image format with no signature test in main
GifGood == Payload(<<71, 73, 70, 56, 57, 97>>, "GIF", JErr)
\* {"wallet_address":"0xabc"}
JsonObj ==
    Payload(<<123, 34, 119, 97, 108, 108, 101, 116, 95, 97, 100, 100, 114,
              101, 115, 115, 34, 58, 34, 48, 120, 97, 98, 99, 34, 125>>,
            "error", JDict([wallet_address |-> JStr("0xabc")]))
\* {"data":5}
JsonData5 ==
    Payload(<<123, 34, 100, 97, 116, 97, 34, 58, 53, 125>>,
            "error", JDict([data |-> JInt]))
\* {"data":{"baseImage":"A"},"signature":"s"}
JsonFull ==
    Payload(<<123, 34, 100, 97, 116, 97, 34, 58, 123, 34, 98, 97, 115, 101,
              73, 109, 97, 103, 101, 34, 58, 34, 65, 34, 125, 44, 34, 115,
              105, 103, 110, 97, 116, 117, 114, 101, 34, 58, 34, 115, 34,
              125>>,
            "error",
            JDict([data |-> JDict([baseImage |-> JStr("A")]),
                   signature |-> JStr("s")]))
\* [1]
JsonList == Payload(<<91, 49, 93>>, "error", JList(<<JInt>>))
\* (space){"a":1}
JsonWs ==
    Payload(<<32, 123, 34, 97, 34, 58, 49, 125>>, "error",
            JDict([a |-> JInt]))
\* (space){bad
WsBad == Payload(<<32, 123, 98, 97, 100>>, "error", JErr)
\* {bad
BraceBad == Payload(<<123, 98, 97, 100>>, "error", JErr)
\* { followed by the byte FF: not UTF-8
BraceFF == Payload(<<123, 255>>, "error", JErr)
\* 123
JsonInt == Payload(<<49, 50, 51>>, "error", JInt)
\* DE AD BE EF
DeadBeef == Payload(<<222, 173, 190, 239>>, "error", JErr)
\* the empty body
EmptyBody == Payload(<<>>, "error", JErr)

Payloads ==
    {JpegGood, JpegBad, JpegMin, PngGood, PngBad, GifGood, JsonObj,
     JsonData5, JsonFull, JsonList, JsonWs, WsBad, BraceBad, BraceFF,
     JsonInt, DeadBeef, EmptyBody}

\* -------------------------------------------------------- identifiers

image_cid ==
    <<"b", "a", "f", "k", "r", "e", "i", "f", "u", "o", "y", "d", "y", "k",
      "l", "r", "a", "l", "6", "z", "u", "b", "b", "j", "r", "i", "r", "v",
      "v", "u", "5", "j", "d", "x", "r", "6", "d", "y", "p", "e", "m", "k",
      "p", "p", "z", "x", "a", "m", "n", "o", "x", "f", "w", "w", "j", "a",
      "7", "l", "u">>
metadata_cid ==
    <<"b", "a", "f", "y", "b", "e", "i", "c", "o", "z", "d", "j", "m", "w",
      "4", "t", "3", "h", "7", "r", "y", "k", "n", "z", "k", "f", "x", "e",
      "2", "v", "4", "a", "n", "h", "7", "a", "b", "l", "o", "4", "t", "v",
      "h", "r", "q", "v", "c", "u", "x", "q", "p", "x", "6", "3", "g", "4",
      "e", "6", "u">>

\* Command-line identifiers: one shorter than the prefix, one longer.
ShortCid == <<"Q", "m", "X">>
LongCid == <<"Q", "m", "a", "b", "c", "d", "e", "f", "g", "h", "i", "j">>
ArgCids == {ShortCid, LongCid}

\* cid[:10]
PrefixLen == 10
Prefix(cid) ==
    SubSeq(cid, 1, IF Len(cid) < PrefixLen THEN Len(cid) ELSE PrefixLen)

\* f"retrieved_{cid[:10]}<ext>"
Filename(cid, ext) == [prefix |-> Prefix(cid), ext |-> ext]

VARIABLES
    PINATA_JWT,   \* the bearer token of the environment ("" when unset)
    cids,         \* main: the identifiers to retrieve
    pc,           \* main: "loop", "retrieving", "retrieved", "done", "crashed"
    n,            \* main: how many identifiers the for loop has taken
    gateways,     \* retrieve_from_ipfs: the candidate list of this call
    i,            \* retrieve_from_ipfs: the loop index (1-based)
    attempts,     \* the GETs this call has issued, with each outcome
    content,      \* main: <<>> for None, <<payload>> for the bytes returned
    report,       \* what main has reported, one record per identifier
    written       \* every file written so far, in order

rvars == <<PINATA_JWT, cids, pc, n, gateways, i, attempts, content, report,
           written>>

\* ------------------------------------------------- retrieve_from_ipfs

\* os.getenv("PINATA_GATEWAY", <default>)
PINATA_GATEWAY == "amethyst-impossible-ptarmigan-368.mypinata.cloud"

Gateway(host, cid, headers, name) ==
    [url |-> [host |-> host, cid |-> cid], headers |-> headers, name |-> name]

\* {"Authorization": f"Bearer {PINATA_JWT}"} and {}
AuthHeaders(jwt) == {<<"Authorization", <<"Bearer", jwt>>>>}
NoHeaders == {}

AuthGateway(jwt, cid) ==
    Gateway(PINATA_GATEWAY, cid, AuthHeaders(jwt),
            "Pinata Authenticated Gateway (JWT)")

PublicGateways(cid) ==
    << Gateway("ipfs.io", cid, NoHeaders, "IPFS.io Public Gateway"),
       Gateway("gateway.pinata.cloud", cid, NoHeaders, "Pinata Public Gateway"),
       Gateway("dweb.link", cid, NoHeaders, "Protocol Labs dweb.link"),
       Gateway(PINATA_GATEWAY, cid, NoHeaders, "Custom Pinata Gateway") >>

\* A builder that adds the authenticated candidate whatever the token is.
BuildGatewaysAlwaysAuth(jwt, cid) ==
    <<AuthGateway(jwt, cid)>> \o PublicGateways(cid)

\* The list retrieve_from_ipfs builds: `if PINATA_JWT:` is false for None
\* and for the empty string.
BuildGateways(jwt, cid) ==
    (IF jwt # "" THEN <<AuthGateway(jwt, cid)>> ELSE <<>>)
        \o PublicGateways(cid)

\* What one requests.get can do: answer with a status (and a body), or
\* raise a RequestException (timeout, connection error, DNS failure).
MissStatuses == {403, 404, 500}
Responses ==
    {[kind |-> "status", status |-> 200, body |-> b] : b \in Payloads}
        \cup {[kind |-> "status", status |-> s, body |-> EmptyBody] :
                s \in MissStatuses}
        \cup {[kind |-> "exception", status |-> 0, body |-> EmptyBody]}

\* A loop body that never returns: it goes on after a 200 as well.
HandleNoShortCircuit(resp) == "continue"

\* The branch the loop body takes on a response: "return" the body or
\* "continue" with the next gateway.
Handle(resp) ==
    IF resp.kind = "exception" THEN "continue"
    ELSE IF resp.status = 200 THEN "return"
    ELSE IF resp.status = 403 THEN "continue"
    ELSE IF resp.status = 404 THEN "continue"
    ELSE "continue"

\* What the network did, as the log of attempts keeps it: "ok" with the
\* body for a 200, "miss" for any other status and for an exception.
Seen(resp) ==
    IF resp.kind = "status" /\ resp.status = 200
    THEN [kind |-> "ok", body |-> resp.body]
    ELSE [kind |-> "miss", body |-> EmptyBody]

\* A loop that skips the candidate after a missed one.
NextIndexSkipping(k, len) == IF k + 1 < len THEN k + 2 ELSE 0

\* The gateway the loop tries after a miss at index k (0: none is left).
NextIndex(k, len) == IF k < len THEN k + 1 ELSE 0

\* ----------------------------------------------- rendering routines

\* open(filename, 'wb').write(content)
RawFile(cid, ext, c) ==
    [name |-> Filename(cid, ext), mode |-> "wb", bytes |-> c.bytes,
     json |-> JErr]
\* json.dump(data, open(filename, 'w'), indent=2)
JsonFile(cid, ext, data) ==
    [name |-> Filename(cid, ext), mode |-> "w", bytes |-> <<>>,
     json |-> data]

\* display_image: the files it writes, and whether it raises.
display_image(c, cid) ==
    IF c.pil # "error"
    THEN [files |-> <<RawFile(cid, ".jpg", c)>>, raised |-> FALSE]
    ELSE [files |-> <<RawFile(cid, ".bin", c)>>, raised |-> FALSE]

\* Lines 129-142 of display_json, run after the .json file is saved: TRUE
\* when one of the lookups raises (TypeError or AttributeError).
InspectRaises(data) ==
    IF ~Iterable(data) THEN TRUE
    ELSE IF ~In("data", data) THEN FALSE
    ELSE IF data.t # "dict" THEN TRUE
    ELSE LET data_obj == data.m["data"]
         IN  IF ~Iterable(data_obj) THEN TRUE
             ELSE \/ /\ In("baseImage", data_obj)
                     /\ \/ data_obj.t # "dict"
                        \/ ~HasLen(data_obj.m["baseImage"])
                  \/ /\ In("depthImage", data_obj)
                     /\ \/ data_obj.t # "dict"
                        \/ ~HasLen(data_obj.m["depthImage"])
                  \/ /\ In("depthData", data_obj)
                     /\ \/ data_obj.t # "dict"
                        \/ data_obj.m["depthData"].t # "dict"
                  \/ /\ In("signature", data)
                     /\ ~Sliceable(data.m["signature"])

\* A display_json without its `except Exception` clause: a
\* UnicodeDecodeError, or an exception of the inspection, leaves it.
display_json_uncaught(c, cid) ==
    IF ~Utf8Decodes(c.bytes)
    THEN [files |-> <<>>, raised |-> TRUE]
    ELSE IF c.json = JErr
    THEN [files |-> <<RawFile(cid, ".txt", c)>>, raised |-> FALSE]
    ELSE [files |-> <<JsonFile(cid, ".json", c.json)>>,
          raised |-> InspectRaises(c.json)]

\* display_json: the files it writes, and whether it raises.
display_json(c, cid) ==
    IF ~Utf8Decodes(c.bytes)
    THEN \* UnicodeDecodeError: except Exception
         [files |-> <<RawFile(cid, ".bin", c)>>, raised |-> FALSE]
    ELSE IF c.json = JErr
    THEN \* except json.JSONDecodeError
         [files |-> <<RawFile(cid, ".txt", c)>>, raised |-> FALSE]
    ELSE IF InspectRaises(c.json)
    THEN \* saved, then except Exception
         [files |-> <<JsonFile(cid, ".json", c.json),
                      RawFile(cid, ".bin", c)>>,
          raised |-> FALSE]
    ELSE [files |-> <<JsonFile(cid, ".json", c.json)>>, raised |-> FALSE]

\* ------------------------------------------------------------- main

\* One of the first three branches of main: the routine is called outside
\* any try, so an exception of the routine ends the run.
Direct(label, routine, r) ==
    [detected |-> <<label>>, routines |-> <<routine>>, files |-> r.files,
     crashed |-> r.raised]

\* An unknown branch that reports and saves nothing.
UnknownNotSaved(c, cid) == [detected |-> <<"Unknown">>, files |-> <<>>]

\* Lines 211-218: the bytes fit nothing; they are saved as they are.
Unknown(c, cid) ==
    [detected |-> <<"Unknown">>, files |-> <<RawFile(cid, ".bin", c)>>]

\* The else branch of main: JSON, then any image, then unknown; both
\* routines are called inside a try with a bare except.
Fallback(c, cid) ==
    LET parses == Utf8Decodes(c.bytes) /\ c.json # JErr
        rj == display_json(c, cid)
        jsonDone == parses /\ ~rj.raised
        opens == ~jsonDone /\ c.pil # "error"
        ri == display_image(c, cid)
        imageDone == opens /\ ~ri.raised
        unknown == ~jsonDone /\ ~imageDone
    IN  [detected |->
            (IF parses THEN <<"JSON">> ELSE <<>>)
                \o (IF opens THEN <<"Image">> ELSE <<>>)
                \o (IF unknown THEN Unknown(c, cid).detected ELSE <<>>),
         routines |->
            (IF parses THEN <<"display_json">> ELSE <<>>)
                \o (IF opens THEN <<"display_image">> ELSE <<>>),
         files |->
            (IF parses THEN rj.files ELSE <<>>)
                \o (IF opens THEN ri.files ELSE <<>>)
                \o (IF unknown THEN Unknown(c, cid).files ELSE <<>>),
         crashed |-> FALSE]

\* A main without the `{` / `[` branch.
ClassifyWithoutJsonBranch(c, cid) ==
    IF startswith(c.bytes, JPEG_SIG)
    THEN Direct("JPEG", "display_image", display_image(c, cid))
    ELSE IF startswith(c.bytes, PNG_SIG)
    THEN Direct("PNG", "display_image", display_image(c, cid))
    ELSE Fallback(c, cid)

\* Lines 186-218: what main does with the bytes of one identifier.
Classify(c, cid) ==
    IF startswith(c.bytes, JPEG_SIG)
    THEN Direct("JPEG", "display_image", display_image(c, cid))
    ELSE IF startswith(c.bytes, PNG_SIG)
    THEN Direct("PNG", "display_image", display_image(c, cid))
    ELSE IF startswith(c.bytes, BRACE) \/ startswith(c.bytes, BRACKET)
    THEN Direct("JSON", "display_json", display_json(c, cid))
    ELSE Fallback(c, cid)

\* The files of one identifier, tagged with its position in cids.
Tagged(k, files) ==
    [j \in 1..Len(files) |->
        [k |-> k, name |-> files[j].name, mode |-> files[j].mode,
         bytes |-> files[j].bytes, json |-> files[j].json]]

\* sys.argv[1:]
Argvs == UNION {[1..k -> ArgCids] : k \in 0..MaxCids}

InitRetriever ==
    /\ PINATA_JWT \in {"", "jwt"}
    /\ \E argv \in Argvs :
          cids = IF Len(argv) > 0 THEN argv ELSE <<image_cid, metadata_cid>>
    /\ pc = "loop"
    /\ n = 0
    /\ gateways = <<>>
    /\ i = 0
    /\ attempts = <<>>
    /\ content = <<>>
    /\ report = <<>>
    /\ written = <<>>

\* main takes the next identifier and calls retrieve_from_ipfs, which
\* builds its gateway list.
CanRetrieve == pc = "loop" /\ n < Len(cids)

Retrieve ==
    /\ CanRetrieve
    /\ n' = n + 1
    /\ gateways' = BuildGateways(PINATA_JWT, cids[n + 1])
    /\ i' = 1
    /\ attempts' = <<>>
    /\ pc' = "retrieving"
    /\ UNCHANGED <<PINATA_JWT, cids, content, report, written>>

\* One iteration of the gateway loop: a GET to gateways[i] and the branch
\* taken on its outcome; after the last gateway the function returns None.
CanTryGateway == pc = "retrieving" /\ i >= 1 /\ i <= Len(gateways)

TryGateway ==
    /\ CanTryGateway
    /\ \E resp \in Responses :
          /\ attempts' =
                Append(attempts, [gateway |-> gateways[i], seen |-> Seen(resp)])
          /\ IF Handle(resp) = "return"
             THEN /\ content' = <<resp.body>>
                  /\ pc' = "retrieved"
                  /\ i' = i
             ELSE IF NextIndex(i, Len(gateways)) # 0
             THEN /\ i' = NextIndex(i, Len(gateways))
                  /\ UNCHANGED <<content, pc>>
             ELSE /\ content' = <<>>
                  /\ pc' = "retrieved"
                  /\ i' = i
    /\ UNCHANGED <<PINATA_JWT, cids, n, gateways, report, written>>

\* A main that leaves the loop on None (`break` for `continue`).
OnNoneBreak == "done"

\* `if content is None: continue`: where main goes on.
OnNone == "loop"

\* main after retrieve_from_ipfs returned: `continue` on None, otherwise
\* classify, render and save.  The locals of the finished call are gone.
CanProcess == pc = "retrieved"

Process ==
    /\ CanProcess
    /\ IF content = <<>>
       THEN /\ report' =
                 Append(report, [cid |-> cids[n], retrieved |-> FALSE,
                                 detected |-> <<>>, routines |-> <<>>])
            /\ written' = written
            /\ pc' = OnNone
       ELSE LET r == Classify(content[1], cids[n])
            IN  /\ report' =
                     Append(report, [cid |-> cids[n], retrieved |-> TRUE,
                                     detected |-> r.detected,
                                     routines |-> r.routines])
                /\ written' = written \o Tagged(n, r.files)
                /\ pc' = IF r.crashed THEN "crashed" ELSE "loop"
    /\ gateways' = <<>>
    /\ i' = 0
    /\ attempts' = <<>>
    /\ UNCHANGED <<PINATA_JWT, cids, n, content>>

\* The for loop is over: main prints "Retrieval complete!".
CanComplete == pc = "loop" /\ n = Len(cids)

Complete ==
    /\ CanComplete
    /\ pc' = "done"
    /\ UNCHANGED <<PINATA_JWT, cids, n, gateways, i, attempts, content,
                   report, written>>

\* ---------------------------------------------------- upload service

VARIABLES
    creds,      \* which Pinata credentials the environment holds
    served,     \* how many upload requests have been handled
    request,    \* the request handled last
    pins,       \* the pinning-provider POSTs of that request, with results
    inserts,    \* the record-store POSTs of that request
    response    \* the HTTP response of that request

uvars == <<creds, served, request, pins, inserts, response>>

vars == <<rvars, uvars>>

Wallets == {"0xabc", "0xdef"}

\* The metadata form field: a name for the text, and what json.loads makes
\* of it ({bad  {"depth":1}  [1]).
Metadatas ==
    {[name |-> "bad", json |-> JErr],
     [name |-> "object", json |-> JDict([depth |-> JInt])],
     [name |-> "list", json |-> JList(<<JInt>>)]}

\* image.filename: "" when the client sent none
Filenames == {"", "photo.jpg"}

\* The identifiers the pinning provider can answer with.
Hashes == {"cidA", "cidB"}

\* What the POST to the pinning provider can do: answer 200 with an
\* IpfsHash (or without one: ""), answer another status, or raise a
\* RequestException.
PinResponses ==
    {[kind |-> "status", status |-> 200, hash |-> h] : h \in Hashes \cup {""}}
        \cup {[kind |-> "status", status |-> 401, hash |-> ""],
              [kind |-> "exception", status |-> 0, hash |-> ""]}

\* What a POST to the record store can do.
StoreStatuses == {201, 401, 404, 500}
StoreResponses ==
    {[kind |-> "status", status |-> s] : s \in StoreStatuses}
        \cup {[kind |-> "exception", status |-> 0]}

\* The headers upload_to_ipfs sends: the API key pair when there is one,
\* otherwise the bearer token.
PinHeaders(c) == IF c = "apikey" THEN "pinata_api_key" ELSE "Authorization"

\* upload_to_ipfs: the POST it issues and how it ends: it returns the
\* IpfsHash, or raises HTTPException(status), or raises ValueError.
upload_to_ipfs(file_data, filename, metadata, c, resp) ==
    LET post == [file |-> file_data, filename |-> filename,
                 keyvalues |-> metadata, headers |-> PinHeaders(c)]
    IN  IF resp.kind = "exception"
        THEN [post |-> post, raises |-> "HTTPException", status |-> 500,
              cid |-> ""]
        ELSE IF resp.status # 200
        THEN [post |-> post, raises |-> "HTTPException",
              status |-> resp.status, cid |-> ""]
        ELSE IF resp.hash = ""
        THEN [post |-> post, raises |-> "ValueError", status |-> 0,
              cid |-> ""]
        ELSE [post |-> post, raises |-> "none", status |-> 200,
              cid |-> resp.hash]

\* One pinning POST as the log keeps it: the request and the identifier
\* returned ("" when the call raised).
Pinned(u) == [post |-> u.post, cid |-> u.cid]

\* A row with the two identifiers in each other's column.
InsertSwapped(table, wallet_address, img_cid, meta_cid) ==
    [table |-> table, wallet_address |-> wallet_address,
     image_cid |-> meta_cid, metadata_cid |-> img_cid]

Insert(table, wallet_address, img_cid, meta_cid) ==
    [table |-> table, wallet_address |-> wallet_address,
     image_cid |-> img_cid, metadata_cid |-> meta_cid]

\* store_in_supabase: the POSTs it issues (a second one, to the quoted
\* table name, after a 401) and how it ends.
store_in_supabase(wallet_address, img_cid, meta_cid, r1, r2) ==
    LET first == Insert("images", wallet_address, img_cid, meta_cid)
        second == Insert("\"images\"", wallet_address, img_cid, meta_cid)
        retried == r1.kind = "status" /\ r1.status = 401
        posts == IF retried THEN <<first, second>> ELSE <<first>>
        last == IF retried THEN r2 ELSE r1
    IN  IF last.kind = "exception"
        THEN [posts |-> posts, raises |-> "HTTPException", status |-> 500]
        ELSE IF last.status = 401
        THEN [posts |-> posts, raises |-> "HTTPException", status |-> 401]
        ELSE IF last.status = 404
        THEN [posts |-> posts, raises |-> "HTTPException", status |-> 404]
        ELSE IF last.status >= 400
        THEN [posts |-> posts, raises |-> "HTTPException", status |-> 500]
        ELSE [posts |-> posts, raises |-> "none", status |-> 200]

\* The handlers' except clauses: an HTTPException keeps its status, any
\* other exception becomes a 500.
ErrorStatus(r) == IF r.raises = "HTTPException" THEN r.status ELSE 500

Outcome(ps, ins, status, cid, meta_cid) ==
    [pins |-> ps, inserts |-> ins,
     response |-> [status |-> status, cid |-> cid,
                   metadata_cid |-> meta_cid]]

\* f"capture_{wallet_address[:10]}.jpg" (no wallet of Wallets is longer
\* than ten characters)
DefaultFilename(wallet_address) == <<"capture_", wallet_address, ".jpg">>

\* POST /upload
upload_capture(wallet_address, image, metadata, c, pinResp, r1, r2) ==
    IF metadata.json = JErr
    THEN Outcome(<<>>, <<>>, 400, "", "")
    ELSE IF metadata.json.t # "dict"
    THEN \* metadata_dict["wallet_address"] = ... raises TypeError
         Outcome(<<>>, <<>>, 500, "", "")
    ELSE LET filename == IF image # "" THEN <<image>>
                         ELSE DefaultFilename(wallet_address)
             u == upload_to_ipfs(<<"image", image>>, filename,
                                 <<"metadata", metadata.name, wallet_address>>,
                                 c, pinResp)
             st == store_in_supabase(wallet_address, u.cid, u.cid, r1, r2)
         IN  IF u.raises # "none"
             THEN Outcome(<<Pinned(u)>>, <<>>, ErrorStatus(u), "", "")
             ELSE IF st.raises # "none"
             THEN Outcome(<<Pinned(u)>>, st.posts, ErrorStatus(st), "", "")
             ELSE Outcome(<<Pinned(u)>>, st.posts, 200, u.cid, "")

\* POST /upload-json (the timestamp of the two file names is left out)
upload_json_capture(wallet_address, image, metadata, c, p1, p2, r1, r2) ==
    IF metadata.json = JErr
    THEN Outcome(<<>>, <<>>, 400, "", "")
    ELSE LET u1 == upload_to_ipfs(<<"image", image>>,
                                  <<"original_", wallet_address, ".jpg">>,
                                  <<"original_image", wallet_address>>,
                                  c, p1)
             u2 == upload_to_ipfs(
                       <<"json", metadata.name, wallet_address, u1.cid>>,
                       <<"metadata_", wallet_address, ".json">>,
                       <<"metadata", wallet_address, u1.cid>>, c, p2)
             st == store_in_supabase(wallet_address, u1.cid, u2.cid, r1, r2)
         IN  IF u1.raises # "none"
             THEN Outcome(<<Pinned(u1)>>, <<>>, ErrorStatus(u1), "", "")
             ELSE IF metadata.json.t # "dict"
             THEN \* metadata_dict["wallet_address"] = ... raises TypeError
                  Outcome(<<Pinned(u1)>>, <<>>, 500, "", "")
             ELSE IF u2.raises # "none"
             THEN Outcome(<<Pinned(u1), Pinned(u2)>>, <<>>, ErrorStatus(u2),
                          "", "")
             ELSE IF st.raises # "none"
             THEN Outcome(<<Pinned(u1), Pinned(u2)>>, st.posts,
                          ErrorStatus(st), "", "")
             ELSE Outcome(<<Pinned(u1), Pinned(u2)>>, st.posts, 200, u1.cid,
                          u2.cid)

NoRequest ==
    [endpoint |-> "none", wallet_address |-> "", image |-> "",
     metadata |-> [name |-> "bad", json |-> JErr]]

InitUpload ==
    /\ creds \in {"apikey", "jwt"}
    /\ served = 0
    /\ request = NoRequest
    /\ pins = <<>>
    /\ inserts = <<>>
    /\ response = [status |-> 0, cid |-> "", metadata_cid |-> ""]

Handled(endpoint, wallet_address, image, metadata, o) ==
    /\ served' = served + 1
    /\ request' = [endpoint |-> endpoint, wallet_address |-> wallet_address,
                   image |-> image, metadata |-> metadata]
    /\ pins' = o.pins
    /\ inserts' = o.inserts
    /\ response' = o.response
    /\ UNCHANGED creds

\* The answers to the second POST: there is one only after a 401.
SecondResponses(r1) ==
    IF r1.kind = "status" /\ r1.status = 401 THEN StoreResponses ELSE {r1}

UploadCapture ==
    /\ served < MaxRequests
    /\ \E w \in Wallets, image \in Filenames, m \in Metadatas,
          p \in PinResponses, r1 \in StoreResponses :
          \E r2 \in SecondResponses(r1) :
          Handled("/upload", w, image, m,
                  upload_capture(w, image, m, creds, p, r1, r2))

UploadJsonCapture ==
    /\ served < MaxRequests
    /\ \E w \in Wallets, image \in Filenames, m \in Metadatas,
          p1 \in PinResponses, p2 \in PinResponses,
          r1 \in StoreResponses :
          \E r2 \in SecondResponses(r1) :
          Handled("/upload-json", w, image, m,
                  upload_json_capture(w, image, m, creds, p1, p2, r1, r2))

\* ------------------------------------------------------ specifications

\* The retriever runs; the upload service is a separate process.
IdleUpload ==
    /\ creds = "apikey"
    /\ served = 0
    /\ request = NoRequest
    /\ pins = <<>>
    /\ inserts = <<>>
    /\ response = [status |-> 0, cid |-> "", metadata_cid |-> ""]

IdleRetriever ==
    /\ PINATA_JWT = ""
    /\ cids = <<>>
    /\ pc = "idle"
    /\ n = 0
    /\ gateways = <<>>
    /\ i = 0
    /\ attempts = <<>>
    /\ content = <<>>
    /\ report = <<>>
    /\ written = <<>>

Init == InitRetriever /\ IdleUpload

Next ==
    \/ Retrieve /\ UNCHANGED uvars
    \/ TryGateway /\ UNCHANGED uvars
    \/ Process /\ UNCHANGED uvars
    \/ Complete /\ UNCHANGED uvars

Spec == Init /\ [][Next]_vars

UploadInit == InitUpload /\ IdleRetriever

UploadNext ==
    \/ UploadCapture /\ UNCHANGED rvars
    \/ UploadJsonCapture /\ UNCHANGED rvars

SpecUpload == UploadInit /\ [][UploadNext]_vars

\* ---------------------------------------------------------- claims

\* The GETs of the running call went, one each, to the first candidates
\* of its list, in the order of the list.
InPriorityOrder ==
    /\ Len(attempts) <= Len(gateways)
    /\ \A k \in 1..Len(attempts) : attempts[k].gateway = gateways[k]

Missed(k) == attempts[k].seen.kind = "miss"

\* C1: in retrieve_from_ipfs, when candidates 1..k-1 miss (a non-200
\* status or a transport failure) and candidate k answers 200, the call
\* returns candidate k's body, having issued exactly one GET to each of
\* candidates 1..k in priority order and none to a candidate after k; so
\* a 200 from the first candidate leaves every other candidate unasked.
C1_ShortCircuit ==
    /\ InPriorityOrder
    /\ \A k \in 1..Len(attempts) :
          /\ attempts[k].seen.kind = "ok" =>
                /\ k = Len(attempts)
                /\ pc = "retrieved"
                /\ content = <<attempts[k].seen.body>>
          /\ k < Len(attempts) => Missed(k)
    /\ (pc = "retrieved" /\ content # <<>>) =>
          /\ Len(attempts) >= 1
          /\ attempts[Len(attempts)].seen.kind = "ok"

\* The first two candidates missed, the third answered 200 with
\* {"wallet_address":"0xabc"}, which is returned.
C1_Witness ==
    /\ pc = "retrieved"
    /\ Len(attempts) = 3
    /\ Missed(1)
    /\ Missed(2)
    /\ attempts[3].seen = [kind |-> "ok", body |-> JsonObj]
    /\ content = <<JsonObj>>

\* C2: in retrieve_from_ipfs, when every configured candidate answers a
\* non-200 status or raises a transport error, the call returns None (it
\* raises nothing) and has tried every candidate exactly once, in priority
\* order.
C2_Exhaustion ==
    /\ pc # "crashed"
    /\ InPriorityOrder
    /\ (pc = "retrieved" /\ content = <<>>) =>
          /\ Len(gateways) >= 4
          /\ Len(attempts) = Len(gateways)
          /\ \A k \in 1..Len(attempts) : Missed(k)
    /\ (/\ Len(attempts) >= 1
        /\ Len(attempts) = Len(gateways)
        /\ \A k \in 1..Len(attempts) : Missed(k)) =>
          (pc = "retrieved" /\ content = <<>>)

\* All five candidates were tried and missed.
C2_Witness ==
    /\ pc = "retrieved"
    /\ content = <<>>
    /\ Len(attempts) = 5
    /\ \A k \in 1..5 : Missed(k) /\ attempts[k].gateway = gateways[k]

Hosts == [k \in 1..Len(gateways) |-> gateways[k].url.host]

FourPublicHosts ==
    <<"ipfs.io", "gateway.pinata.cloud", "dweb.link", PINATA_GATEWAY>>

\* C3: the candidate list of a call is, in priority order, the primary
\* gateway with the bearer header, ipfs.io, the pinning provider's public
\* gateway, the alternate public gateway and the primary gateway without
\* headers; with no bearer token it is the same list without its first
\* candidate, and the retrieval is not failed by the missing token.
C3_CandidateList ==
    /\ pc # "crashed"
    /\ pc \in {"retrieving", "retrieved"} =>
          /\ \A k \in 1..Len(gateways) : gateways[k].url.cid = cids[n]
          /\ IF PINATA_JWT # ""
             THEN /\ Hosts = <<PINATA_GATEWAY>> \o FourPublicHosts
                  /\ gateways[1].headers
                        = {<<"Authorization", <<"Bearer", PINATA_JWT>>>>}
                  /\ \A k \in 2..5 : gateways[k].headers = {}
             ELSE /\ Hosts = FourPublicHosts
                  /\ \A k \in 1..4 : gateways[k].headers = {}
    /\ \A c \in ArgCids :
          BuildGateways("", c) = Tail(BuildGateways("jwt", c))

\* With no token the four public candidates are the list, and the last of
\* them delivers the bytes.
C3_Witness ==
    /\ PINATA_JWT = ""
    /\ pc = "retrieved"
    /\ Len(gateways) = 4
    /\ Len(attempts) = 4
    /\ content = <<JpegGood>>

\* What main has reported is the identifiers taken so far, in input order.
ReportedInOrder ==
    /\ Len(report) = IF pc \in {"retrieving", "retrieved"} THEN n - 1 ELSE n
    /\ \A k \in 1..Len(report) : report[k].cid = cids[k]

\* One of the four steps of the run can be taken: their guards (what
\* follows a guard in each step is an assignment, which never blocks).
CanStep == CanRetrieve \/ CanTryGateway \/ CanProcess \/ CanComplete

\* A natural number that every step of the run makes smaller: the
\* identifiers still to take, then the candidates still to try.
Measure ==
    IF pc \in {"done", "crashed"} THEN 0
    ELSE 1 + (Len(cids) - n) * 8
           + (CASE pc = "retrieving" -> Len(gateways) - i + 2
                [] pc = "retrieved" -> 1
                [] pc = "loop" -> 0)

\* C4: main processes the identifiers one at a time in input order, and an
\* identifier whose gateways are all exhausted does not end the run: every
\* later identifier is still retrieved and reported on, and the run
\* reaches its completion message (it is never stuck before it, and every
\* step brings it nearer).
C4_BatchContinues ==
    /\ [](pc # "crashed" /\ ReportedInOrder)
    /\ [](pc = "done" => Len(report) = Len(cids))
    /\ [](pc # "done" => CanStep)
    /\ [][Measure' < Measure]_vars

\* The first identifier was exhausted, the second one was retrieved and
\* rendered, and the run is complete.
C4_Witness ==
    /\ pc = "done"
    /\ Len(report) = 2
    /\ ~report[1].retrieved
    /\ report[2].retrieved
    /\ report[2].detected = <<"JSON">>
    /\ \E k \in 1..Len(written) : written[k].k = 2

\* main has classified and rendered the bytes of identifier n, which are
\* still in content.
Processed ==
    /\ pc \in {"loop", "done", "crashed"}
    /\ n >= 1
    /\ Len(report) = n
    /\ report[n].retrieved
    /\ content # <<>>

\* The files written for identifier k.
FilesOf(k) == SelectSeq(written, LAMBDA f : f.k = k)

\* One file of the raw bytes b, written for identifier k under `ext`.
Saved(k, ext, b) ==
    << [k |-> k, name |-> [prefix |-> Prefix(cids[k]), ext |-> ext],
        mode |-> "wb", bytes |-> b, json |-> JErr] >>

HasJpegSignature(b) ==
    Len(b) >= 3 /\ b[1] = 255 /\ b[2] = 216 /\ b[3] = 255
HasPngSignature(b) ==
    Len(b) >= 4 /\ b[1] = 137 /\ b[2] = 80 /\ b[3] = 78 /\ b[4] = 71
NoImageSignature(b) == ~HasJpegSignature(b) /\ ~HasPngSignature(b)
\* the first byte is { or [
OpensJson(b) == Len(b) >= 1 /\ b[1] \in {123, 91}
\* the bytes decode as UTF-8 and the text parses as JSON
ParsesAsJson(c) == Utf8Decodes(c.bytes) /\ c.json # JErr

\* C5: classification is ordered and the first match wins: bytes of length
\* at least 3 that begin FF D8 FF are classified JPEG and bytes that begin
\* 89 50 4E 47 are classified PNG, whatever follows, and no JSON or
\* generic-image test is made on them.
C5_SignaturesFirst ==
    Processed =>
        LET b == content[1].bytes
        IN  /\ HasJpegSignature(b) =>
                  /\ report[n].detected = <<"JPEG">>
                  /\ report[n].routines = <<"display_image">>
            /\ HasPngSignature(b) =>
                  /\ report[n].detected = <<"PNG">>
                  /\ report[n].routines = <<"display_image">>

\* A PNG signature followed by a byte that is not of a PNG was classified
\* PNG, and then the three bytes FF D8 FF alone were classified JPEG.
C5_Witness ==
    /\ Processed
    /\ n = 2
    /\ report[1].detected = <<"PNG">>
    /\ FilesOf(1) = Saved(1, ".bin", PngBad.bytes)
    /\ content = <<JpegMin>>
    /\ report[2].detected = <<"JPEG">>

\* bytes.strip(): the whitespace bytes
IsWhitespace(x) == x \in {9, 10, 11, 12, 13, 32}

RECURSIVE FirstNonWhitespace(_, _)
\* The first byte of b, from index k on, that is no whitespace (0: none).
FirstNonWhitespace(b, k) ==
    IF k > Len(b) THEN 0
    ELSE IF IsWhitespace(b[k]) THEN FirstNonWhitespace(b, k + 1)
    ELSE b[k]

\* C6 as stated: bytes with neither image signature whose first
\* non-whitespace byte is { or [ go to display_json, with leading
\* whitespace too and with invalid JSON too, never to the unknown path.
C6_AsStated ==
    Processed =>
        LET b == content[1].bytes
        IN  (NoImageSignature(b) /\ FirstNonWhitespace(b, 1) \in {123, 91}) =>
                /\ report[n].routines = <<"display_json">>
                /\ report[n].detected = <<"JSON">>

\* C6: bytes with neither image signature whose first byte is { or [ go
\* to display_json, also when the text is not valid JSON (its raw text is
\* then saved as .txt, not by the unknown path); bytes whose { or [ comes
\* after leading whitespace go to display_json only when they decode and
\* parse as JSON, and otherwise to the image and unknown path.
C6_FirstByteRoutesJson ==
    Processed =>
        LET c == content[1]
            b == c.bytes
        IN  /\ (NoImageSignature(b) /\ OpensJson(b)) =>
                  /\ report[n].detected = <<"JSON">>
                  /\ report[n].routines = <<"display_json">>
                  /\ (Utf8Decodes(b) /\ c.json = JErr) =>
                        FilesOf(n) = Saved(n, ".txt", b)
            /\ (/\ NoImageSignature(b)
                /\ ~OpensJson(b)
                /\ FirstNonWhitespace(b, 1) \in {123, 91}) =>
                  /\ ParsesAsJson(c) =>
                        /\ report[n].detected = <<"JSON">>
                        /\ report[n].routines = <<"display_json">>
                  /\ ~ParsesAsJson(c) =>
                        /\ report[n].routines = <<>>
                        /\ report[n].detected = <<"Unknown">>
                        /\ FilesOf(n) = Saved(n, ".bin", b)

\* {bad went to display_json and was saved as .txt, and before it
\* (space){"a":1} went to display_json through the parse of the else
\* branch.
C6_Witness ==
    /\ Processed
    /\ n = 2
    /\ report[1].routines = <<"display_json">>
    /\ \E k \in 1..Len(written) :
          written[k].k = 1 /\ written[k].json = JsonWs.json
    /\ content = <<BraceBad>>
    /\ report[2].routines = <<"display_json">>
    /\ FilesOf(2) = Saved(2, ".txt", BraceBad.bytes)

\* C7: bytes that match no signature test of main (JPEG, PNG, leading {
\* or [), do not decode and parse as JSON and do not open as an image are
\* classified unknown and saved raw as .bin; the run does not crash and
\* goes on with the next identifier.
C7_UnknownSaved ==
    Processed =>
        LET c == content[1]
            b == c.bytes
        IN  (/\ NoImageSignature(b)
             /\ ~OpensJson(b)
             /\ ~ParsesAsJson(c)
             /\ c.pil = "error") =>
                /\ report[n].detected = <<"Unknown">>
                /\ report[n].routines = <<>>
                /\ FilesOf(n) = Saved(n, ".bin", b)
                /\ pc \in {"loop", "done"}
                /\ pc = "loop" => (CanRetrieve \/ CanComplete)

\* DE AD BE EF came for the first of two identifiers, was saved as .bin,
\* and main is back at its loop with the second identifier to take.
C7_Witness ==
    /\ Processed
    /\ content = <<DeadBeef>>
    /\ n = 1
    /\ Len(cids) = 2
    /\ pc = "loop"
    /\ CanRetrieve
    /\ report[1].detected = <<"Unknown">>
    /\ FilesOf(1) = Saved(1, ".bin", <<222, 173, 190, 239>>)

\* C8: bytes sent to a rendering routine by their leading bytes that fail
\* to parse in it (an image signature on bytes that do not open as an
\* image; a leading { or [ on invalid UTF-8 or invalid JSON) make the
\* routine save the unchanged raw bytes as .bin or .txt and return: no
\* exception leaves it and the run is not ended.
C8_ParseFailureDegrades ==
    /\ pc # "crashed"
    /\ Processed =>
        LET c == content[1]
            b == c.bytes
        IN  /\ (~NoImageSignature(b) /\ c.pil = "error") =>
                  /\ report[n].routines = <<"display_image">>
                  /\ FilesOf(n) = Saved(n, ".bin", b)
            /\ (NoImageSignature(b) /\ OpensJson(b) /\ ~Utf8Decodes(b)) =>
                  /\ report[n].routines = <<"display_json">>
                  /\ FilesOf(n) = Saved(n, ".bin", b)
            /\ (/\ NoImageSignature(b)
                /\ OpensJson(b)
                /\ Utf8Decodes(b)
                /\ c.json = JErr) =>
                  /\ report[n].routines = <<"display_json">>
                  /\ FilesOf(n) = Saved(n, ".txt", b)

\* A JPEG signature on bytes that are no image was saved as .bin, then {
\* followed by FF (no UTF-8) was saved as .bin, and main goes on.
C8_Witness ==
    /\ Processed
    /\ n = 2
    /\ FilesOf(1) = Saved(1, ".bin", JpegBad.bytes)
    /\ report[1].routines = <<"display_image">>
    /\ content = <<BraceFF>>
    /\ report[2].routines = <<"display_json">>
    /\ FilesOf(2) = Saved(2, ".bin", BraceFF.bytes)
    /\ pc = "loop"

\* The first ten characters of an identifier (all of a shorter one).
FirstTen(cid) == [j \in 1..(IF Len(cid) < 10 THEN Len(cid) ELSE 10) |-> cid[j]]

\* C9: every file written for an identifier is named from the first 10
\* characters of the identifier and an extension that matches the
\* classification of the bytes: .jpg for an image, .json for JSON, .bin or
\* .txt for bytes that are unrecognised or failed to parse.
C9_NamedByClassification ==
    /\ \A k \in 1..Len(written) :
          /\ written[k].name.prefix = FirstTen(cids[written[k].k])
          /\ written[k].name.ext \in {".jpg", ".json", ".bin", ".txt"}
    /\ Processed =>
          \A k \in 1..Len(FilesOf(n)) :
             LET f == FilesOf(n)[k]
                 c == content[1]
             IN  /\ f.name.ext = ".jpg" => c.pil # "error"
                 /\ f.name.ext = ".json" => ParsesAsJson(c)
                 /\ f.name.ext \in {".bin", ".txt"} =>
                       (c.pil = "error" /\ ~ParsesAsJson(c))

\* Some pin of the request handled last returned no identifier.
SomePinFailed == \E k \in 1..Len(pins) : pins[k].cid = ""

\* No insert was issued and the response is an error.
RefusedWithoutInsert == inserts = <<>> /\ response.status >= 400

\* Two pins, the image file and then the metadata JSON, both answered
\* with an identifier, and every insert carries exactly these two.
TwoPinsThenInsert ==
    /\ Len(pins) = 2
    /\ pins[1].post.file = <<"image", request.image>>
    /\ pins[2].post.file[1] = "json"
    /\ pins[2].post.file[2] = request.metadata.name
    /\ pins[1].cid # "" /\ pins[2].cid # ""
    /\ \A k \in 1..Len(inserts) :
          /\ inserts[k].wallet_address = request.wallet_address
          /\ inserts[k].image_cid = pins[1].cid
          /\ inserts[k].metadata_cid = pins[2].cid

\* One pin, the image file with the metadata as its key-values, answered
\* with an identifier, and every insert carries it in both columns.
OnePinThenInsert ==
    /\ Len(pins) = 1
    /\ pins[1].post.file = <<"image", request.image>>
    /\ pins[1].post.keyvalues
          = <<"metadata", request.metadata.name, request.wallet_address>>
    /\ pins[1].cid # ""
    /\ \A k \in 1..Len(inserts) :
          /\ inserts[k].wallet_address = request.wallet_address
          /\ inserts[k].image_cid = pins[1].cid
          /\ inserts[k].metadata_cid = pins[1].cid

\* C10 as stated: on /upload and on /upload-json the image and the
\* metadata are each pinned, the insert comes only after both pins
\* returned an identifier and carries exactly those; invalid metadata or a
\* failed pin means no insert and an error response.
C10_AsStated ==
    served >= 1 =>
        /\ (inserts # <<>> \/ response.status = 200) =>
              (inserts # <<>> /\ TwoPinsThenInsert)
        /\ (request.metadata.json = JErr \/ SomePinFailed) =>
              RefusedWithoutInsert

\* C10: /upload-json pins the image and the metadata JSON and inserts only
\* after both pins returned an identifier, with exactly those two; /upload
\* issues one pin (the image, the metadata as its key-values) and inserts
\* only after it returned an identifier, with that identifier as image and
\* as metadata identifier; on both, invalid metadata or a failed pin means
\* no insert and an error response.
C10_PinsBeforeInsert ==
    served >= 1 =>
        /\ (inserts # <<>> \/ response.status = 200) =>
              /\ inserts # <<>>
              /\ request.endpoint = "/upload-json" => TwoPinsThenInsert
              /\ request.endpoint = "/upload" => OnePinThenInsert
        /\ (request.metadata.json = JErr \/ SomePinFailed) =>
              RefusedWithoutInsert

\* An /upload-json request whose pins returned cidA and cidB and whose
\* insert, accepted by the record store, carries cidA and cidB.
C10_Witness ==
    /\ served >= 1
    /\ request.endpoint = "/upload-json"
    /\ response.status = 200
    /\ Len(pins) = 2
    /\ pins[1].cid = "cidA"
    /\ pins[2].cid = "cidB"
    /\ Len(inserts) = 1
    /\ inserts[1].image_cid = "cidA"
    /\ inserts[1].metadata_cid = "cidB"

\* C11: after a batch run, each identifier whose retrieval succeeded has
\* caused exactly one file to be written (never two files with different
\* extensions for the same bytes), and each identifier whose retrieval
\* was exhausted has caused no file to be written.
C11_OneArtifactEach ==
    pc = "done" =>
        \A k \in 1..Len(report) :
            IF report[k].retrieved
            THEN Len(FilesOf(k)) = 1
            ELSE Len(FilesOf(k)) = 0

====
